---- MODULE Spec2Model ----
(***************************************************************************)
(* PigeonNS: the mDNS resolution engine (class MDNSResolver).              *)
(*                                                                         *)
(* The repository carries the resolver twice: src/resolver.js (stop()      *)
(* rejects the pending queries synchronously, names are not case-folded)   *)
(* and index.js (src/unnamed/part_003: stop() defers every rejection with  *)
(* setImmediate and releases the transport through destroy(), names are    *)
(* lower-cased).  The copy at src/jest.config.js:196-491 has the stop() of *)
(* index.js and the names of src/resolver.js.  The variable impl says      *)
(* which file the engine was constructed from.                             *)
(*                                                                         *)
(* Time is Date.now() in milliseconds.  A name is a sequence of tokens     *)
(* (letters and the suffix ".local"), a cache key `${name}:${type}` is the *)
(* pair <<name, type>>.                                                    *)
(***************************************************************************)
EXTENDS Integers, Sequences, FiniteSets, TLC

VARIABLES
    impl,             \* the file the engine comes from
    destroyCb,        \* TRUE iff the transport's destroy takes a callback
    options,          \* this.options
    mdns,             \* this.mdns: "null", "live", or "destroyed" (destroy called, handle kept)
    cache,            \* this.cache: a Map, as the sequence of its entries in insertion order
    pendingQueries,   \* this.pendingQueries: a Map, as the sequence of PendingQuery ids in insertion order
    queries,          \* every PendingQuery created so far (promise state, timer)
    immediates,       \* setImmediate queue: ids whose deferred pending.reject is scheduled
    checkBatch,       \* callbacks left in the check phase that is running (0: not in it)
    finishCallbacks,  \* destroy callbacks (finish) not yet called
    calls,            \* every resolve() call made so far and what it returned
    queryCalls,       \* every this.mdns.query() invocation so far
    emitted,          \* the events emitted by the last handler
    lastOp,           \* the last handler and what it returned or threw
    now,              \* Date.now()
    http              \* every HTTP request handled so far, with the reply written to it

vars == <<impl, destroyCb, options, mdns, cache, pendingQueries, queries,
          immediates, checkBatch, finishCallbacks, calls, queryCalls,
          emitted, lastOp, now, http>>

----------------------------------------------------------------------------
(* Bounds of the exploration *)

MaxCalls == 2
MaxTicks == 1
MaxAnswers == 2
MaxCacheCalls == 1
MaxCacheSize == 2
MaxFinish == 2
MaxRequests == 1

(* Configuration used by the tests *)

TickMs == 1000
Timeout == 1000
DefaultTtl == 1

----------------------------------------------------------------------------
(* Inputs *)

Impls == {"resolver", "index"}

AnswerRecords(names, types, datas, ttls) ==
    [name : names, type : types, data : datas, ttl : ttls]

AnswerLists(answers, n) == UNION { [1..k -> answers] : k \in 0..n }

\* missing: response.answers is absent or null
ResponsesOf(lists) ==
    [missing : {TRUE}, answers : {<<>>}] \cup [missing : {FALSE}, answers : lists]

CacheSizes == 0..MaxCacheSize

\* the inputs of the query lifecycle: one name with and without its suffix and
\* a second name to resolve, single-record responses for the first name
LifeNames == { <<"h">>, <<"h", ".local">>, <<"g", ".local">> }
LifeTypes == {"A"}
LifeAnswers ==
    AnswerRecords({<<"h", ".local">>}, {"A"}, {"ip1"}, {0})
LifeResponses == ResponsesOf(AnswerLists(LifeAnswers, 1))

\* the inputs of the cache: three keys, a record kind that is never stored,
\* responses of up to MaxAnswers records
CacheNames == { <<"h", ".local">> }
CacheTypes == {"A"}
CacheAnswers ==
    AnswerRecords({<<"h", ".local">>}, {"A"}, {"ip1"}, {0})
    \cup AnswerRecords({<<"h", ".local">>}, {"AAAA"}, {"ip2"}, {0})
    \cup AnswerRecords({<<"g", ".local">>}, {"A"}, {"ip1"}, {2})
    \cup AnswerRecords({<<"h", ".local">>}, {"TXT"}, {"ip1"}, {0})
CacheResponses == ResponsesOf(AnswerLists(CacheAnswers, MaxAnswers))

\* the inputs of multi-record ingestion: one name queried for both address
\* types, responses that carry its A record, its AAAA record or both
RecordTypes == {"A", "AAAA"}
RecordAnswers ==
    AnswerRecords({<<"h", ".local">>}, {"A"}, {"ip1"}, {0})
    \cup AnswerRecords({<<"h", ".local">>}, {"AAAA"}, {"ip2"}, {0})
RecordResponses == ResponsesOf(AnswerLists(RecordAnswers, MaxAnswers))

\* one key answered with either of two addresses, one record per response
AddressAnswers ==
    AnswerRecords({<<"h", ".local">>}, {"A"}, {"ip1", "ip2"}, {0})
AddressResponses == ResponsesOf(AnswerLists(AddressAnswers, 1))

\* responses that carry no address record (no answers, or up to MaxAnswers
\* records of other types for the name that is queried) and the single-record
\* response that fills the cache with another name
IgnoredAnswers ==
    AnswerRecords({<<"h", ".local">>}, {"TXT", "SRV"}, {"ip1"}, {0})
OtherNameAnswers ==
    AnswerRecords({<<"g", ".local">>}, {"A"}, {"ip1"}, {0})
IgnoredResponses ==
    ResponsesOf(AnswerLists(IgnoredAnswers, MaxAnswers) \cup AnswerLists(OtherNameAnswers, 1))

\* one address record with every kind of TTL: positive, zero, negative, absent
TtlAnswers ==
    AnswerRecords({<<"h", ".local">>}, {"A"}, {"ip1"}, {2, 0, -1})
    \cup [name : {<<"h", ".local">>}, type : {"A"}, data : {"ip1"}]
TtlResponses == ResponsesOf(AnswerLists(TtlAnswers, 1))

\* two keys whose entries expire at different times, one of them in the past
SnapshotAnswers ==
    AnswerRecords({<<"h", ".local">>}, {"A"}, {"ip1"}, {0, -1})
    \cup AnswerRecords({<<"h", ".local">>}, {"AAAA"}, {"ip2"}, {2})
SnapshotResponses == ResponsesOf(AnswerLists(SnapshotAnswers, 1))

\* two keys, one of them announced with two addresses and lifetimes
ReingestAnswers ==
    AnswerRecords({<<"h", ".local">>}, {"A"}, {"ip1"}, {0})
    \cup AnswerRecords({<<"h", ".local">>}, {"A"}, {"ip2"}, {2})
    \cup AnswerRecords({<<"h", ".local">>}, {"AAAA"}, {"ip2"}, {0})
ReingestResponses == ResponsesOf(AnswerLists(ReingestAnswers, 1))

\* HTTP requests: the method, the path and the query parameters of the URL
\* (NoParam: searchParams.get() gave null or the empty string)
NoParam == <<>>
HttpMethods == {"GET", "OPTIONS", "POST"}
HttpPaths == {"/resolve", "/health", "/", "/other"}
HttpRequests ==
    [method : HttpMethods, pathname : HttpPaths,
     name : {NoParam, <<"h">>}, hostname : {NoParam, <<"h", ".local">>},
     type : {NoParam}]

\* three keys whose entries live for different times
AgingAnswers ==
    AnswerRecords({<<"h", ".local">>}, {"A"}, {"ip1"}, {2})
    \cup AnswerRecords({<<"h", ".local">>}, {"AAAA"}, {"ip2"}, {0})
    \cup AnswerRecords({<<"g", ".local">>}, {"A"}, {"ip1"}, {0})
AgingResponses == ResponsesOf(AnswerLists(AgingAnswers, 1))

\* one name asked for an address and for a text record, and responses of up to
\* MaxAnswers records that carry either for it
OtherTypes == {"A", "TXT"}
OtherAnswers == AnswerRecords({<<"h", ".local">>}, OtherTypes, {"ip1"}, {0})
OtherResponses == ResponsesOf(AnswerLists(OtherAnswers, MaxAnswers))

\* one record whose entry lives for two seconds
RestartAnswers == AnswerRecords({<<"h", ".local">>}, {"A"}, {"ip1"}, {2})
RestartResponses == ResponsesOf(AnswerLists(RestartAnswers, 1))

\* responses of up to MaxAnswers records that announce one key with either of
\* two addresses, next to a record of a second key
MultiAnswers ==
    AddressAnswers \cup AnswerRecords({<<"h", ".local">>}, {"AAAA"}, {"ip2"}, {0})
MultiResponses == ResponsesOf(AnswerLists(MultiAnswers, MaxAnswers))

\* the spellings of one host name: with and without the suffix, in either case,
\* and single-record responses that spell the name in either case
NameNames == { <<"h">>, <<"H">>, <<"h", ".local">>, <<"H", ".local">> }
NameAnswers ==
    AnswerRecords({<<"h", ".local">>, <<"H", ".local">>}, {"A"}, {"ip1"}, {0})
NameResponses == ResponsesOf(AnswerLists(NameAnswers, 1))

----------------------------------------------------------------------------
(* Names and keys *)

ToLowerToken(t) == IF t = "H" THEN "h" ELSE IF t = "G" THEN "g" ELSE t

RECURSIVE toLowerCase(_)
toLowerCase(name) ==
    IF name = <<>> THEN <<>>
    ELSE <<ToLowerToken(Head(name))>> \o toLowerCase(Tail(name))

endsWithLocal(name) == Len(name) > 0 /\ name[Len(name)] = ".local"

FoldsCase(i) == i = "index"

DefersRejection(i) == i = "index"

NormalizeName(i, name) ==
    LET folded == IF FoldsCase(i) THEN toLowerCase(name) ELSE name
    IN  IF endsWithLocal(folded) THEN folded ELSE Append(folded, ".local")

AnswerName(i, name) == IF FoldsCase(i) THEN toLowerCase(name) ELSE name

CacheKey(name, type) == <<name, type>>

----------------------------------------------------------------------------
(* Map operations on the insertion-ordered sequences *)

RECURSIVE SeqFilterOut(_, _)
SeqFilterOut(s, i) ==
    IF s = <<>> THEN <<>>
    ELSE IF i = 1 THEN Tail(s)
    ELSE <<Head(s)>> \o SeqFilterOut(Tail(s), i - 1)

CacheIndex(c, key) ==
    IF \E i \in 1..Len(c) : c[i].key = key
    THEN CHOOSE i \in 1..Len(c) : c[i].key = key
    ELSE 0

CacheGet(c, key) == c[CacheIndex(c, key)]

CacheHas(c, key) == CacheIndex(c, key) # 0

\* (mutation of CacheSet: an overwritten key moves to the back)
CacheSetMovesToBack(c, key, entry) ==
    IF CacheHas(c, key)
    THEN Append(SeqFilterOut(c, CacheIndex(c, key)), entry)
    ELSE Append(c, entry)

\* (mutation of CacheSet: the first entry of a key wins)
CacheSetKeepsFirst(c, key, entry) ==
    IF CacheHas(c, key) THEN c ELSE Append(c, entry)

CacheSet(c, key, entry) ==
    IF CacheHas(c, key)
    THEN [c EXCEPT ![CacheIndex(c, key)] = entry]
    ELSE Append(c, entry)

PendingIndex(qs, p, key) ==
    IF \E i \in 1..Len(p) : qs[p[i]].key = key
    THEN CHOOSE i \in 1..Len(p) : qs[p[i]].key = key
    ELSE 0

PendingHas(qs, p, key) == PendingIndex(qs, p, key) # 0

PendingGet(qs, p, key) == p[PendingIndex(qs, p, key)]

PendingDelete(qs, p, key) ==
    IF PendingHas(qs, p, key) THEN SeqFilterOut(p, PendingIndex(qs, p, key)) ELSE p

----------------------------------------------------------------------------
(* Promise and timer of one PendingQuery *)

StoppedError == [kind |-> "Resolver stopped", name |-> <<>>]
TimeoutError(name) == [kind |-> "Timeout resolving", name |-> name]
NotRunningError == [kind |-> "Resolver is not running", name |-> <<>>]
NoValue == [kind |-> "none", name |-> <<>>]
Address(a) == [kind |-> "address", name |-> <<a>>]

PromiseSettle(qs, q, state, value) ==
    IF qs[q].state = "pending"
    THEN [qs EXCEPT ![q].state = state, ![q].value = value]
    ELSE qs

ClearTimeout(qs, q) ==
    IF qs[q].timer = "armed" THEN [qs EXCEPT ![q].timer = "cleared"] ELSE qs

\* pending.resolve(address): clearTimeout, pendingQueries.delete(cacheKey), promiseResolve
PendingResolve(st, q, address) ==
    [queries |-> PromiseSettle(ClearTimeout(st.queries, q), q, "resolved", Address(address)),
     pendingQueries |-> PendingDelete(st.queries, st.pendingQueries, st.queries[q].key)]

\* pending.reject(err): clearTimeout, pendingQueries.delete(cacheKey), promiseReject
PendingReject(st, q, err) ==
    [queries |-> PromiseSettle(ClearTimeout(st.queries, q), q, "rejected", err),
     pendingQueries |-> PendingDelete(st.queries, st.pendingQueries, st.queries[q].key)]

\* (mutation of TimeoutCallback: the timeout empties the whole table)
TimeoutCallbackClearsTable(st, q) ==
    [queries |-> PromiseSettle([st.queries EXCEPT ![q].timer = "fired"], q, "rejected",
                               TimeoutError(st.queries[q].name)),
     pendingQueries |-> <<>>]

\* (mutation of TimeoutCallback: the entry is removed without rejecting)
TimeoutCallbackForgetsCaller(st, q) ==
    [queries |-> [st.queries EXCEPT ![q].timer = "fired"],
     pendingQueries |-> PendingDelete(st.queries, st.pendingQueries, st.queries[q].key)]

\* (mutation of TimeoutCallback: the table entry is left in place)
TimeoutCallbackKeepsEntry(st, q) ==
    [queries |-> PromiseSettle([st.queries EXCEPT ![q].timer = "fired"], q, "rejected",
                               TimeoutError(st.queries[q].name)),
     pendingQueries |-> st.pendingQueries]

\* the setTimeout callback: pendingQueries.delete(cacheKey), promiseReject(Timeout)
TimeoutCallback(st, q) ==
    [queries |-> PromiseSettle([st.queries EXCEPT ![q].timer = "fired"], q, "rejected",
                               TimeoutError(st.queries[q].name)),
     pendingQueries |-> PendingDelete(st.queries, st.pendingQueries, st.queries[q].key)]

----------------------------------------------------------------------------
\* the state after `new MDNSResolver(options)`; the transport's destroy either
\* takes a callback or is synchronous (src/resolver.js never passes one)
InitWith(cacheSizes) ==
    /\ impl \in Impls
    /\ destroyCb \in (IF DefersRejection(impl) THEN BOOLEAN ELSE {FALSE})
    /\ options \in [ttl : {DefaultTtl}, cacheSize : cacheSizes, timeout : {Timeout}]
    /\ mdns = "null"
    /\ cache = <<>>
    /\ pendingQueries = <<>>
    /\ queries = <<>>
    /\ immediates = <<>>
    /\ checkBatch = 0
    /\ finishCallbacks = 0
    /\ calls = <<>>
    /\ queryCalls = <<>>
    /\ emitted = <<>>
    /\ lastOp = [op |-> "constructor", ret |-> "ok"]
    /\ now = 0
    /\ http = <<>>

\* an engine of either file over a transport whose destroy is synchronous
Init == InitWith({MaxCacheSize}) /\ destroyCb = FALSE

----------------------------------------------------------------------------
(* Events and bookkeeping of the calls *)

Event(e, name, type, address, ttl) ==
    [event |-> e, name |-> name, type |-> type, address |-> address, ttl |-> ttl]

PlainEvent(e) == Event(e, <<>>, "", "", 0)

\* the calls made since the last response, timeout or stop are "open"
RECURSIVE CloseWindows(_)
CloseWindows(cs) ==
    IF cs = <<>> THEN <<>>
    ELSE <<[Head(cs) EXCEPT !.open = FALSE]>> \o CloseWindows(Tail(cs))

\* the first open call on the key that created a PendingQuery (0: none)
GroupLeader(cs, key) ==
    IF \E i \in 1..Len(cs) : cs[i].open /\ cs[i].created /\ cs[i].key = key
    THEN CHOOSE i \in 1..Len(cs) :
            /\ cs[i].open /\ cs[i].created /\ cs[i].key = key
            /\ \A j \in 1..Len(cs) : (cs[j].open /\ cs[j].created /\ cs[j].key = key) => i <= j
    ELSE 0

Call(key, qid, result, created, sent, hit) ==
    [key |-> key, qid |-> qid, result |-> result, created |-> created, sent |-> sent,
     hit |-> hit, open |-> TRUE,
     group |-> IF GroupLeader(calls, key) # 0 THEN GroupLeader(calls, key) ELSE Len(calls) + 1]

----------------------------------------------------------------------------
(* start() *)

\* (mutation of Start: a second start() replaces the transport)
StartReplacesTransport ==
    /\ mdns' = "live"
    /\ emitted' = <<PlainEvent("started")>>
    /\ lastOp' = [op |-> "start", ret |-> "ok"]
    /\ UNCHANGED <<http, impl, destroyCb, options, cache, pendingQueries, queries, immediates,
                   checkBatch, finishCallbacks, calls, queryCalls, now>>

Start ==
    /\ IF mdns # "null"
       THEN /\ lastOp' = [op |-> "start", ret |-> "Resolver is already running"]
            /\ emitted' = <<>>
            /\ UNCHANGED mdns
       ELSE /\ mdns' = "live"
            /\ emitted' = <<PlainEvent("started")>>
            /\ lastOp' = [op |-> "start", ret |-> "ok"]
    /\ UNCHANGED <<http, impl, destroyCb, options, cache, pendingQueries, queries, immediates,
                   checkBatch, finishCallbacks, calls, queryCalls, now>>

----------------------------------------------------------------------------
(* stop() *)

\* bookkeeping: the PendingQuery instances that were in the table when stop() ran
RECURSIVE MarkStopped(_, _)
MarkStopped(qs, ids) ==
    IF ids = <<>> THEN qs
    ELSE MarkStopped([qs EXCEPT ![Head(ids)].stopped = TRUE], Tail(ids))

RECURSIVE RejectAll(_, _)
RejectAll(st, ids) ==
    IF ids = <<>> THEN st
    ELSE RejectAll(PendingReject(st, Head(ids), StoppedError), Tail(ids))

\* (mutation of StopSync: stop() also clears the cache)
StopSyncClearsCache ==
    LET st == RejectAll([queries |-> MarkStopped(queries, pendingQueries),
                         pendingQueries |-> pendingQueries],
                        pendingQueries)
    IN  /\ ~DefersRejection(impl)
        /\ mdns' = "null"
        /\ cache' = <<>>
        /\ queries' = st.queries
        /\ pendingQueries' = st.pendingQueries
        /\ emitted' = <<PlainEvent("stopped")>>
        /\ lastOp' = [op |-> "stop", ret |-> "ok"]
        /\ calls' = CloseWindows(calls)
        /\ UNCHANGED <<http, impl, destroyCb, options, immediates, checkBatch,
                       finishCallbacks, queryCalls, now>>

\* src/resolver.js: destroy the transport, reject every pending query at once
StopSync ==
    LET st == RejectAll([queries |-> MarkStopped(queries, pendingQueries),
                         pendingQueries |-> pendingQueries],
                        pendingQueries)
    IN  /\ ~DefersRejection(impl)
        /\ mdns' = "null"
        /\ queries' = st.queries
        /\ pendingQueries' = st.pendingQueries
        /\ emitted' = <<PlainEvent("stopped")>>
        /\ lastOp' = [op |-> "stop", ret |-> "ok"]
        /\ calls' = CloseWindows(calls)
        /\ UNCHANGED <<http, impl, destroyCb, options, cache, immediates, checkBatch,
                       finishCallbacks, queryCalls, now>>

\* index.js: schedule every rejection with setImmediate, empty the table,
\* then destroy the transport; with a callback-taking destroy the handle is
\* released by finish() when the callback runs
StopDeferred ==
    /\ DefersRejection(impl)
    /\ immediates' = immediates \o pendingQueries
    /\ pendingQueries' = <<>>
    /\ queries' = MarkStopped(queries, pendingQueries)
    /\ IF mdns = "null"
       THEN /\ emitted' = <<PlainEvent("stopped")>>
            /\ UNCHANGED <<mdns, finishCallbacks>>
       ELSE IF destroyCb
       THEN /\ finishCallbacks < MaxFinish
            /\ mdns' = "destroyed"
            /\ finishCallbacks' = finishCallbacks + 1
            /\ emitted' = <<>>
       ELSE /\ mdns' = "null"
            /\ emitted' = <<PlainEvent("stopped")>>
            /\ UNCHANGED finishCallbacks
    /\ lastOp' = [op |-> "stop", ret |-> "promise"]
    /\ calls' = CloseWindows(calls)
    /\ UNCHANGED <<http, impl, destroyCb, options, cache, checkBatch, queryCalls, now>>

Stop == StopSync \/ StopDeferred

\* the callback given to destroy: finish() sets this.mdns = null
FinishDestroy ==
    /\ finishCallbacks > 0
    /\ checkBatch = 0
    /\ finishCallbacks' = finishCallbacks - 1
    /\ mdns' = "null"
    /\ emitted' = <<PlainEvent("stopped")>>
    /\ lastOp' = [op |-> "finish", ret |-> "ok"]
    /\ calls' = CloseWindows(calls)
    /\ UNCHANGED <<http, impl, destroyCb, options, cache, pendingQueries, queries, immediates,
                   checkBatch, queryCalls, now>>

\* one setImmediate callback of stop(): pending.reject(new Error('Resolver stopped'))
RunImmediate ==
    /\ immediates # <<>>
    /\ LET q == Head(immediates)
           st == PendingReject([queries |-> queries, pendingQueries |-> pendingQueries],
                               q, StoppedError)
       IN  /\ queries' = st.queries
           /\ pendingQueries' = st.pendingQueries
    /\ immediates' = Tail(immediates)
    /\ checkBatch' = IF checkBatch = 0 THEN Len(immediates) - 1 ELSE checkBatch - 1
    /\ emitted' = <<>>
    /\ lastOp' = [op |-> "immediate", ret |-> "ok"]
    /\ calls' = CloseWindows(calls)
    /\ UNCHANGED <<http, impl, destroyCb, options, mdns, cache, finishCallbacks, queryCalls, now>>

----------------------------------------------------------------------------
(* resolve(name, type) *)

\* (mutation of Fresh: the cache is never consulted)
FreshNever(c, key, t) == FALSE

\* (mutation of Fresh: an entry that expires now still counts)
FreshOrExpiringNow(c, key, t) == CacheHas(c, key) /\ CacheGet(c, key).expires >= t

\* cached && cached.expires > Date.now()
Fresh(c, key, t) == CacheHas(c, key) /\ CacheGet(c, key).expires > t

NewQuery(key, name) ==
    [key |-> key, name |-> name, state |-> "pending", value |-> NoValue,
     timer |-> "armed", armedAt |-> now, deadline |-> now + options.timeout,
     stopped |-> FALSE]

\* (mutation of AlreadyPending: the dedup check never finds the entry)
AlreadyPendingNever(key) == FALSE

\* the dedup check: this.pendingQueries.has(cacheKey)
AlreadyPending(key) == PendingHas(queries, pendingQueries, key)

\* resolve(name, type), whoever calls it
ResolveCall(rawName, type) ==
    LET name == NormalizeName(impl, rawName)
        key == CacheKey(name, type)
    IN  /\ lastOp' = [op |-> "resolve", ret |-> "promise"]
        /\ IF mdns = "null"
           THEN /\ calls' = Append(calls, Call(key, 0, NotRunningError, FALSE, 0, FALSE))
                /\ emitted' = <<>>
                /\ UNCHANGED <<pendingQueries, queries, queryCalls>>
           ELSE IF Fresh(cache, key, now)
           THEN /\ calls' = Append(calls, Call(key, 0, Address(CacheGet(cache, key).address),
                                               FALSE, 0, TRUE))
                /\ emitted' = <<Event("cache-hit", name, type, CacheGet(cache, key).address, 0)>>
                /\ UNCHANGED <<pendingQueries, queries, queryCalls>>
           ELSE IF AlreadyPending(key)
           THEN /\ calls' = Append(calls, Call(key, PendingGet(queries, pendingQueries, key),
                                               NoValue, FALSE, 0, FALSE))
                /\ emitted' = <<>>
                /\ UNCHANGED <<pendingQueries, queries, queryCalls>>
           ELSE /\ queries' = Append(queries, NewQuery(key, name))
                /\ pendingQueries' = Append(pendingQueries, Len(queries) + 1)
                /\ queryCalls' = Append(queryCalls, [name |-> name, type |-> type])
                /\ calls' = Append(calls, Call(key, Len(queries) + 1, NoValue, TRUE,
                                               Len(queryCalls') - Len(queryCalls), FALSE))
                /\ emitted' = <<Event("query", name, type, "", 0)>>
        /\ UNCHANGED <<impl, destroyCb, options, mdns, cache, immediates, checkBatch,
                       finishCallbacks, now>>

\* a direct caller of resolve()
Resolve(rawName, type) == ResolveCall(rawName, type) /\ UNCHANGED http

\* (mutation of TimerFire: the timeout sends the query again)
TimerFireRetries(q) ==
    /\ queries[q].timer = "armed"
    /\ now >= queries[q].deadline
    /\ checkBatch = 0
    /\ LET st == TimeoutCallback([queries |-> queries, pendingQueries |-> pendingQueries], q)
       IN  /\ queries' = st.queries
           /\ pendingQueries' = st.pendingQueries
    /\ queryCalls' = Append(queryCalls, [name |-> queries[q].key[1], type |-> queries[q].key[2]])
    /\ emitted' = <<>>
    /\ lastOp' = [op |-> "timeout", ret |-> "ok"]
    /\ calls' = CloseWindows(calls)
    /\ UNCHANGED <<http, impl, destroyCb, options, mdns, cache, immediates, checkBatch,
                   finishCallbacks, now>>

\* the setTimeout callback of PendingQuery q
TimerFire(q) ==
    /\ queries[q].timer = "armed"
    /\ now >= queries[q].deadline
    /\ checkBatch = 0
    /\ LET st == TimeoutCallback([queries |-> queries, pendingQueries |-> pendingQueries], q)
       IN  /\ queries' = st.queries
           /\ pendingQueries' = st.pendingQueries
    /\ emitted' = <<>>
    /\ lastOp' = [op |-> "timeout", ret |-> "ok"]
    /\ calls' = CloseWindows(calls)
    /\ UNCHANGED <<http, impl, destroyCb, options, mdns, cache, immediates, checkBatch,
                   finishCallbacks, queryCalls, now>>

----------------------------------------------------------------------------
(* _handleResponse(response) *)

\* answer.ttl || this.options.ttl (a record may come without a ttl)
RecordTtl(a) == IF "ttl" \in DOMAIN a /\ a.ttl # 0 THEN a.ttl ELSE options.ttl

\* (mutation of Evict: an expired entry is the victim when there is one)
EvictExpiredFirst(c) ==
    IF Len(c) > options.cacheSize
    THEN IF \E i \in 1..Len(c) : c[i].expires <= now
         THEN SeqFilterOut(c, CHOOSE i \in 1..Len(c) :
                                 /\ c[i].expires <= now
                                 /\ \A j \in 1..(i - 1) : c[j].expires > now)
         ELSE Tail(c)
    ELSE c

\* (mutation of Evict: the newest entry is the victim)
EvictNewest(c) ==
    IF Len(c) > options.cacheSize THEN SubSeq(c, 1, Len(c) - 1) ELSE c

\* (mutation of Evict: the size test is off by one)
EvictOffByOne(c) == IF Len(c) > options.cacheSize + 1 THEN Tail(c) ELSE c

\* if (this.cache.size > this.options.cacheSize) delete the first key
Evict(c) == IF Len(c) > options.cacheSize THEN Tail(c) ELSE c

\* (mutation of HandleAnswer: a record nobody waits for is dropped)
HandleAnswerSolicitedOnly(st, a) ==
    LET name == AnswerName(impl, a.name)
        key == CacheKey(name, a.type)
        entry == [key |-> key, address |-> a.data,
                  expires |-> now + RecordTtl(a) * 1000]
    IN  IF a.type \in {"A", "AAAA"} /\ PendingHas(st.queries, st.pendingQueries, key)
        THEN LET settled == PendingResolve([queries |-> st.queries,
                                            pendingQueries |-> st.pendingQueries],
                                           PendingGet(st.queries, st.pendingQueries, key),
                                           a.data)
             IN  [cache |-> Evict(CacheSet(st.cache, key, entry)),
                  queries |-> settled.queries,
                  pendingQueries |-> settled.pendingQueries,
                  emitted |-> Append(st.emitted,
                                     Event("resolved", name, a.type, a.data, RecordTtl(a)))]
        ELSE st

\* (mutation of HandleAnswer: records of every type are ingested)
HandleAnswerAnyType(st, a) ==
    LET name == AnswerName(impl, a.name)
        key == CacheKey(name, a.type)
        entry == [key |-> key, address |-> a.data,
                  expires |-> now + RecordTtl(a) * 1000]
    IN  [cache |-> Evict(CacheSet(st.cache, key, entry)),
         queries |-> st.queries,
         pendingQueries |-> st.pendingQueries,
         emitted |-> Append(st.emitted,
                            Event("resolved", name, a.type, a.data, RecordTtl(a)))]

HandleAnswer(st, a) ==
    IF a.type \in {"A", "AAAA"}
    THEN LET name == AnswerName(impl, a.name)
             key == CacheKey(name, a.type)
             entry == [key |-> key, address |-> a.data,
                       expires |-> now + RecordTtl(a) * 1000]
             settled == IF PendingHas(st.queries, st.pendingQueries, key)
                        THEN PendingResolve([queries |-> st.queries,
                                             pendingQueries |-> st.pendingQueries],
                                            PendingGet(st.queries, st.pendingQueries, key),
                                            a.data)
                        ELSE [queries |-> st.queries, pendingQueries |-> st.pendingQueries]
         IN  [cache |-> Evict(CacheSet(st.cache, key, entry)),
              queries |-> settled.queries,
              pendingQueries |-> settled.pendingQueries,
              emitted |-> Append(st.emitted,
                                 Event("resolved", name, a.type, a.data, RecordTtl(a)))]
    ELSE st

\* (mutation of HandleAnswers: the loop stops after the first record)
HandleAnswersFirstOnly(st, answers) ==
    IF answers = <<>> THEN st ELSE HandleAnswer(st, Head(answers))

RECURSIVE HandleAnswers(_, _)
HandleAnswers(st, answers) ==
    IF answers = <<>> THEN st
    ELSE HandleAnswers(HandleAnswer(st, Head(answers)), Tail(answers))

HandleResponse(response) ==
    LET st0 == [cache |-> cache, queries |-> queries, pendingQueries |-> pendingQueries,
                emitted |-> <<>>]
        st == IF response.missing \/ Len(response.answers) = 0 THEN st0 ELSE HandleAnswers(st0, response.answers)
    IN  /\ mdns = "live"
        /\ checkBatch = 0
        /\ cache' = st.cache
        /\ queries' = st.queries
        /\ pendingQueries' = st.pendingQueries
        /\ emitted' = st.emitted
        /\ lastOp' = [op |-> "response", ret |-> "ok"]
        /\ calls' = CloseWindows(calls)
        /\ UNCHANGED <<http, impl, destroyCb, options, mdns, immediates, checkBatch,
                       finishCallbacks, queryCalls, now>>

----------------------------------------------------------------------------
(* clearCache() and the clock *)

\* (mutation of ClearCache: only the expired entries are removed)
ClearCacheExpiredOnly ==
    /\ cache' = SelectSeq(cache, LAMBDA e : e.expires > now)
    /\ emitted' = <<PlainEvent("cache-cleared")>>
    /\ lastOp' = [op |-> "clearCache", ret |-> "ok"]
    /\ UNCHANGED <<http, impl, destroyCb, options, mdns, pendingQueries, queries, immediates,
                   checkBatch, finishCallbacks, calls, queryCalls, now>>

ClearCache ==
    /\ cache' = <<>>
    /\ emitted' = <<PlainEvent("cache-cleared")>>
    /\ lastOp' = [op |-> "clearCache", ret |-> "ok"]
    /\ UNCHANGED <<http, impl, destroyCb, options, mdns, pendingQueries, queries, immediates,
                   checkBatch, finishCallbacks, calls, queryCalls, now>>

\* Math.max(a, b)
Max(a, b) == IF a >= b THEN a ELSE b

\* (mutation of GetCache: the remaining time is not clamped at 0)
GetCacheUnclamped(c, t) ==
    [key \in {c[i].key : i \in 1..Len(c)} |->
        [address |-> CacheGet(c, key).address,
         expiresIn |-> (CacheGet(c, key).expires - t) \div 1000]]

\* getCache(): key -> {address, expiresIn}; \div rounds down as Math.floor
GetCache(c, t) ==
    [key \in {c[i].key : i \in 1..Len(c)} |->
        [address |-> CacheGet(c, key).address,
         expiresIn |-> Max(0, (CacheGet(c, key).expires - t) \div 1000)]]

\* (mutation of GetCacheCall: reading the cache sweeps the expired entries)
GetCacheCallSweeps ==
    /\ lastOp' = [op |-> "getCache", ret |-> GetCache(cache, now)]
    /\ cache' = SelectSeq(cache, LAMBDA e : e.expires > now)
    /\ emitted' = <<>>
    /\ UNCHANGED <<http, impl, destroyCb, options, mdns, pendingQueries, queries,
                   immediates, checkBatch, finishCallbacks, calls, queryCalls, now>>

GetCacheCall ==
    /\ lastOp' = [op |-> "getCache", ret |-> GetCache(cache, now)]
    /\ emitted' = <<>>
    /\ UNCHANGED <<http, impl, destroyCb, options, mdns, cache, pendingQueries, queries,
                   immediates, checkBatch, finishCallbacks, calls, queryCalls, now>>

----------------------------------------------------------------------------
(* The HTTP handler: _handleHttpRequest of index.js, _handleRequest of MDNSServer *)

\* _sendJSON(res, statusCode, data); status 0: nothing written yet
Reply(status, body) == [status |-> status, body |-> body]
NoReply == Reply(0, <<>>)

\* _sendError(res, statusCode, message)
ErrorReply(status, err) == Reply(status, [error |-> err, statusCode |-> status])

HttpError(message) == [kind |-> message, name |-> <<>>]

\* url.searchParams.get('name') || url.searchParams.get('hostname')
Hostname(req) == IF req.name # NoParam THEN req.name ELSE req.hostname

\* url.searchParams.get('type') || 'A'
TypeOf(req) == IF req.type # NoParam THEN req.type ELSE "A"

\* (mutation of Route: the method is not looked at)
RouteAnyMethod(req) ==
    IF req.pathname = "/health" THEN "health"
    ELSE IF req.pathname = "/resolve"
    THEN IF Hostname(req) = NoParam THEN "missing" ELSE "resolve"
    ELSE IF req.pathname = "/" THEN "info"
    ELSE "notfound"

\* the branch of the handler a request takes
Route(req) ==
    IF req.method = "OPTIONS" THEN "preflight"
    ELSE IF req.method # "GET" THEN "method"
    ELSE IF req.pathname = "/health" THEN "health"
    ELSE IF req.pathname = "/resolve"
    THEN IF Hostname(req) = NoParam THEN "missing" ELSE "resolve"
    ELSE IF req.pathname = "/" THEN "info"
    ELSE "notfound"

\* what the branches other than "resolve" write before the handler returns
RouteReply(route) ==
    CASE route = "preflight" -> Reply(204, <<>>)
      [] route = "method" -> ErrorReply(405, HttpError("Method not allowed"))
      [] route = "health" ->
            Reply(200, [status |-> "ok",
                        cache |-> [size |-> Len(cache), entries |-> GetCache(cache, now)]])
      [] route = "missing" ->
            ErrorReply(400, HttpError("Missing required parameter: name or hostname"))
      [] route = "info" -> Reply(200, [name |-> "PigeonNS mDNS Resolution API"])
      [] route = "notfound" -> ErrorReply(404, HttpError("Not found"))

HandleHttpRequest(req) ==
    /\ Len(http) < MaxRequests
    /\ checkBatch = 0
    /\ IF Route(req) = "resolve"
       THEN /\ ResolveCall(Hostname(req), TypeOf(req))
            /\ http' = Append(http, [req |-> req, call |-> Len(calls) + 1, reply |-> NoReply])
       ELSE /\ http' = Append(http, [req |-> req, call |-> 0, reply |-> RouteReply(Route(req))])
            /\ emitted' = <<>>
            /\ lastOp' = [op |-> "http", ret |-> "ok"]
            /\ UNCHANGED <<impl, destroyCb, options, mdns, cache, pendingQueries, queries,
                           immediates, checkBatch, finishCallbacks, calls, queryCalls, now>>

\* what the caller of resolve() call c has got from its promise so far
CallOutcome(c) ==
    IF calls[c].qid # 0
    THEN [state |-> queries[calls[c].qid].state, value |-> queries[calls[c].qid].value]
    ELSE [state |-> IF calls[c].result.kind = "address" THEN "resolved" ELSE "rejected",
          value |-> calls[c].result]

\* (mutation of ResolveReply: a rejection is answered like a success)
ResolveReplyAlwaysOk(req, outcome) ==
    Reply(200, [hostname |-> IF endsWithLocal(Hostname(req)) THEN Hostname(req)
                                 ELSE Append(Hostname(req), ".local"),
                type |-> TypeOf(req),
                address |-> outcome.value.name])

\* .then(address => _sendJSON(res, 200, ...)).catch(err => _sendError(res, 404, err.message))
ResolveReply(req, outcome) ==
    IF outcome.state = "resolved"
    THEN Reply(200, [hostname |-> IF endsWithLocal(Hostname(req)) THEN Hostname(req)
                                      ELSE Append(Hostname(req), ".local"),
                     type |-> TypeOf(req),
                     address |-> outcome.value.name])
    ELSE ErrorReply(404, outcome.value)

\* the promise reaction of a /resolve request runs once its resolve() has settled
HttpReply(r) ==
    /\ http[r].call # 0
    /\ http[r].reply.status = 0
    /\ CallOutcome(http[r].call).state # "pending"
    /\ http' = [http EXCEPT ![r].reply = ResolveReply(http[r].req, CallOutcome(http[r].call))]
    /\ emitted' = <<>>
    /\ lastOp' = [op |-> "reply", ret |-> "ok"]
    /\ UNCHANGED <<impl, destroyCb, options, mdns, cache, pendingQueries, queries,
                   immediates, checkBatch, finishCallbacks, calls, queryCalls, now>>

----------------------------------------------------------------------------
\* the clock advances towards the deadline of an armed timer
TimerTick ==
    /\ \E q \in 1..Len(queries) : queries[q].timer = "armed" /\ now < queries[q].deadline
    /\ now' = now + TickMs
    /\ emitted' = <<>>
    /\ lastOp' = [op |-> "tick", ret |-> "ok"]
    /\ UNCHANGED <<http, impl, destroyCb, options, mdns, cache, pendingQueries, queries,
                   immediates, checkBatch, finishCallbacks, calls, queryCalls>>

\* the clock advances by half a second
HalfTick ==
    /\ now < MaxTicks * TickMs
    /\ now' = now + TickMs \div 2
    /\ emitted' = <<>>
    /\ lastOp' = [op |-> "tick", ret |-> "ok"]
    /\ UNCHANGED <<http, impl, destroyCb, options, mdns, cache, pendingQueries, queries,
                   immediates, checkBatch, finishCallbacks, calls, queryCalls>>

\* the listener start() puts on the transport: this.emit('error', err).
\* listening: an observer has subscribed to the engine's 'error' event; an
\* EventEmitter with no 'error' listener throws the error out of emit()
TransportError(listening) ==
    /\ mdns = "live"
    /\ checkBatch = 0
    /\ emitted' = IF listening THEN <<PlainEvent("error")>> ELSE <<>>
    /\ lastOp' = [op |-> "error", ret |-> IF listening THEN "ok" ELSE "throws"]
    /\ UNCHANGED <<http, impl, destroyCb, options, mdns, cache, pendingQueries, queries,
                   immediates, checkBatch, finishCallbacks, calls, queryCalls, now>>

Tick ==
    /\ now < MaxTicks * TickMs
    /\ now' = now + TickMs
    /\ emitted' = <<>>
    /\ lastOp' = [op |-> "tick", ret |-> "ok"]
    /\ UNCHANGED <<http, impl, destroyCb, options, mdns, cache, pendingQueries, queries,
                   immediates, checkBatch, finishCallbacks, calls, queryCalls>>

----------------------------------------------------------------------------
Next ==
    \/ Start
    \/ Stop
    \/ RunImmediate
    \/ /\ Len(calls) < MaxCalls
       /\ \E rawName \in LifeNames, type \in LifeTypes : Resolve(rawName, type)
    \/ \E q \in 1..Len(queries) : TimerFire(q)
    \/ \E response \in LifeResponses : HandleResponse(response)
    \/ ClearCache
    \/ Tick

Spec == Init /\ [][Next]_vars

\* the engine of index.js over a transport whose destroy takes a callback:
\* stop() leaves the handle in place until the callback runs
InitDestroy == InitWith({MaxCacheSize}) /\ impl = "index" /\ destroyCb = TRUE

NextDestroy ==
    \/ Start
    \/ StopDeferred
    \/ FinishDestroy
    \/ RunImmediate
    \/ /\ Len(calls) < MaxCalls
       /\ \E rawName \in LifeNames, type \in LifeTypes : Resolve(rawName, type)
    \/ \E q \in 1..Len(queries) : TimerFire(q)
    \/ \E response \in LifeResponses : HandleResponse(response)
    \/ ClearCache
    \/ Tick

SpecDestroy == InitDestroy /\ [][NextDestroy]_vars

\* the cache of an engine that is started and never stopped, under every
\* capacity, fed by multi-record responses within one clock reading
InitCache == InitWith(CacheSizes) /\ destroyCb = FALSE

NextCache ==
    \/ Start
    \/ /\ Len(calls) < MaxCacheCalls
       /\ \E rawName \in CacheNames, type \in CacheTypes : Resolve(rawName, type)
    \/ \E response \in CacheResponses : HandleResponse(response)
    \/ ClearCache

SpecCache == InitCache /\ [][NextCache]_vars

\* one name queried for A and AAAA, under every capacity, with the clock
\* standing still
NextRecords ==
    \/ Start
    \/ /\ Len(calls) < MaxCalls
       /\ \E rawName \in CacheNames, type \in RecordTypes : Resolve(rawName, type)
    \/ \E response \in RecordResponses : HandleResponse(response)

SpecRecords == InitCache /\ [][NextRecords]_vars

\* one key whose address changes between responses; nothing clears the cache
\* or evicts from it
NextAddresses ==
    \/ Start
    \/ /\ Len(calls) < MaxCalls
       /\ \E rawName \in CacheNames, type \in CacheTypes : Resolve(rawName, type)
    \/ \E q \in 1..Len(queries) : TimerFire(q)
    \/ \E response \in AddressResponses : HandleResponse(response)
    \/ Tick

SpecAddresses == Init /\ [][NextAddresses]_vars

\* an engine fed with responses that carry no address record
NextIgnored ==
    \/ Start
    \/ /\ Len(calls) < MaxCacheCalls
       /\ \E rawName \in CacheNames, type \in CacheTypes : Resolve(rawName, type)
    \/ \E response \in IgnoredResponses : HandleResponse(response)
    \/ ClearCache

SpecIgnored == InitCache /\ [][NextIgnored]_vars

\* an engine whose transport reports errors while queries are pending
NextErrors ==
    \/ Start
    \/ Stop
    \/ RunImmediate
    \/ /\ Len(calls) < MaxCacheCalls
       /\ \E rawName \in CacheNames, type \in CacheTypes : Resolve(rawName, type)
    \/ \E q \in 1..Len(queries) : TimerFire(q)
    \/ \E response \in LifeResponses : HandleResponse(response)
    \/ \E listening \in BOOLEAN : TransportError(listening)
    \/ Tick

SpecErrors == Init /\ [][NextErrors]_vars

\* the event loop keeps running: time passes while a timer is armed, a due
\* timer fires, the check phase runs the setImmediate callbacks
NextLive ==
    \/ Start
    \/ Stop
    \/ RunImmediate
    \/ /\ Len(calls) < MaxCalls
       /\ \E rawName \in CacheNames, type \in CacheTypes : Resolve(rawName, type)
    \/ \E q \in 1..Len(queries) : TimerFire(q)
    \/ \E response \in LifeResponses : HandleResponse(response)
    \/ TimerTick

SpecLive ==
    /\ Init
    /\ [][NextLive]_vars
    /\ WF_vars(TimerTick)
    /\ WF_vars(RunImmediate)
    /\ \A q \in 1..MaxCalls : WF_vars(q <= Len(queries) /\ TimerFire(q))

\* records of keys that are already cached arrive again, under every capacity
NextReingest ==
    \/ Start
    \/ /\ Len(calls) < MaxCacheCalls
       /\ \E rawName \in CacheNames, type \in RecordTypes : Resolve(rawName, type)
    \/ \E response \in ReingestResponses : HandleResponse(response)
    \/ ClearCache

SpecReingest == InitCache /\ [][NextReingest]_vars

\* the engine behind its HTTP handler, the event loop running
NextHttp ==
    \/ Start
    \/ Stop
    \/ RunImmediate
    \/ \E req \in HttpRequests : HandleHttpRequest(req)
    \/ \E r \in 1..Len(http) : HttpReply(r)
    \/ \E q \in 1..Len(queries) : TimerFire(q)
    \/ \E response \in LifeResponses : HandleResponse(response)
    \/ TimerTick

SpecHttp ==
    /\ Init
    /\ [][NextHttp]_vars
    /\ WF_vars(TimerTick)
    /\ WF_vars(RunImmediate)
    /\ \A q \in 1..MaxRequests : WF_vars(q <= Len(queries) /\ TimerFire(q))
    /\ \A r \in 1..MaxRequests : WF_vars(r <= Len(http) /\ HttpReply(r))

\* a cache whose entries age and expire while the engine is queried
NextAging ==
    \/ Start
    \/ /\ Len(calls) < MaxCacheCalls
       /\ \E rawName \in CacheNames, type \in RecordTypes : Resolve(rawName, type)
    \/ \E q \in 1..Len(queries) : TimerFire(q)
    \/ \E response \in AgingResponses : HandleResponse(response)
    \/ Tick

SpecAging == Init /\ [][NextAging]_vars

\* every operation of the engine on a cache whose entry expires
NextLazy ==
    \/ Start
    \/ Stop
    \/ RunImmediate
    \/ /\ Len(calls) < MaxCacheCalls
       /\ \E rawName \in CacheNames, type \in CacheTypes : Resolve(rawName, type)
    \/ \E q \in 1..Len(queries) : TimerFire(q)
    \/ \E response \in LifeResponses : HandleResponse(response)
    \/ ClearCache
    \/ GetCacheCall
    \/ Tick

SpecLazy == Init /\ [][NextLazy]_vars

\* queries of a record type that is not an address, until they are answered,
\* time out or are stopped
NextOther ==
    \/ Start
    \/ Stop
    \/ RunImmediate
    \/ /\ Len(calls) < MaxCacheCalls
       /\ \E rawName \in CacheNames, type \in OtherTypes : Resolve(rawName, type)
    \/ \E q \in 1..Len(queries) : TimerFire(q)
    \/ \E response \in OtherResponses : HandleResponse(response)
    \/ Tick

SpecOther == Init /\ [][NextOther]_vars

\* an engine stopped and started again while a cache entry lives
NextRestart ==
    \/ Start
    \/ Stop
    \/ RunImmediate
    \/ /\ Len(calls) < MaxCalls
       /\ \E rawName \in CacheNames, type \in RecordTypes : Resolve(rawName, type)
    \/ \E q \in 1..Len(queries) : TimerFire(q)
    \/ \E response \in RestartResponses : HandleResponse(response)
    \/ Tick

SpecRestart == Init /\ [][NextRestart]_vars

\* one name queried for A and AAAA, each key answered or timed out on its own
NextKeys ==
    \/ Start
    \/ /\ Len(calls) < MaxCalls
       /\ \E rawName \in CacheNames, type \in RecordTypes : Resolve(rawName, type)
    \/ \E q \in 1..Len(queries) : TimerFire(q)
    \/ \E response \in ResponsesOf(AnswerLists(RecordAnswers, 1)) : HandleResponse(response)
    \/ Tick

SpecKeys == Init /\ [][NextKeys]_vars

\* a pending key answered by responses that carry several records
NextMulti ==
    \/ Start
    \/ /\ Len(calls) < MaxCacheCalls
       /\ \E rawName \in CacheNames, type \in CacheTypes : Resolve(rawName, type)
    \/ \E response \in MultiResponses : HandleResponse(response)

SpecMulti == InitCache /\ [][NextMulti]_vars

\* the cache read for diagnostics while entries age by half seconds
NextSnapshot ==
    \/ Start
    \/ /\ Len(calls) < MaxCacheCalls
       /\ \E rawName \in CacheNames, type \in CacheTypes : Resolve(rawName, type)
    \/ \E q \in 1..Len(queries) : TimerFire(q)
    \/ \E response \in SnapshotResponses : HandleResponse(response)
    \/ GetCacheCall
    \/ HalfTick

SpecSnapshot == Init /\ [][NextSnapshot]_vars

\* one key ingested with every kind of TTL while the clock advances
NextTtl ==
    \/ Start
    \/ /\ Len(calls) < MaxCacheCalls
       /\ \E rawName \in CacheNames, type \in CacheTypes : Resolve(rawName, type)
    \/ \E q \in 1..Len(queries) : TimerFire(q)
    \/ \E response \in TtlResponses : HandleResponse(response)
    \/ Tick

SpecTtl == Init /\ [][NextTtl]_vars

\* one host name resolved under its different spellings
NextNames ==
    \/ Start
    \/ /\ Len(calls) < MaxCalls
       /\ \E rawName \in NameNames, type \in LifeTypes : Resolve(rawName, type)
    \/ \E q \in 1..Len(queries) : TimerFire(q)
    \/ \E response \in NameResponses : HandleResponse(response)
    \/ Tick

SpecNames == Init /\ [][NextNames]_vars

----------------------------------------------------------------------------
(* What a caller of resolve() observes *)

InTableOf(p, q) == \E i \in 1..Len(p) : p[i] = q

InTable(q) == InTableOf(pendingQueries, q)

\* the steps that try to settle PendingQuery q without going through the table
TimeoutOrDeferredRejection(q) ==
    TimerFire(q) \/ (RunImmediate /\ Head(immediates) = q)

----------------------------------------------------------------------------
(* The claims *)

\* C1 (dedup): every resolve() call issued on a key after the call that created
\* the key's PendingQuery, with no response, timeout or stop in between (the
\* deferred parts of stop included), joins that same PendingQuery, creates none
\* and sends nothing, so the calls share one transport query and one outcome.
C1_Dedup ==
    \A c \in 1..Len(calls) :
        LET l == calls[c].group
        IN  /\ l <= c
            /\ (l # c) =>
                  /\ calls[l].key = calls[c].key
                  /\ calls[l].created /\ calls[l].sent = 1
                  /\ ~calls[c].created /\ calls[c].sent = 0
                  /\ calls[c].qid = calls[l].qid
                  /\ CallOutcome(c) = CallOutcome(l)
                  /\ Cardinality({ q \in 1..Len(queries) :
                                     /\ queries[q].key = calls[c].key
                                     /\ q >= calls[l].qid /\ q <= calls[c].qid }) = 1

\* two calls joined on one PendingQuery that a response has resolved
C1_Witness ==
    \E c \in 1..Len(calls) :
        /\ calls[c].group # c
        /\ CallOutcome(c).state = "resolved"
        /\ CallOutcome(calls[c].group).state = "resolved"
        /\ Len(queryCalls) = 1

\* C2: each key has at most one PendingQuery instance that was created and is
\* not yet settled.
C2_OneUnsettledPerKey ==
    \A q1, q2 \in 1..Len(queries) :
        (q1 # q2 /\ queries[q1].key = queries[q2].key)
            => ~(queries[q1].state = "pending" /\ queries[q2].state = "pending")

\* C3: every PendingQuery that was pending when stop() ran ends rejected with
\* 'Resolver stopped', never with a timeout error or an address.
C3_StopRejectsWithStopped ==
    \A q \in 1..Len(queries) :
        (queries[q].stopped /\ queries[q].state # "pending")
            => (queries[q].state = "rejected" /\ queries[q].value = StoppedError)

\* C4: the first of response, timeout or stop removes the PendingQuery from
\* the table and fixes its outcome; a settled outcome never changes, and a later
\* timeout or rejection of a settled instance leaves the table alone.
C4_OneOutcome ==
    [][\A q \in 1..Len(queries) :
          /\ (InTable(q) /\ ~InTableOf(pendingQueries', q)) => queries'[q].state # "pending"
          /\ (queries[q].state # "pending")
                => (queries'[q].state = queries[q].state /\ queries'[q].value = queries[q].value)
          /\ (queries[q].state # "pending" /\ TimeoutOrDeferredRejection(q))
                => pendingQueries' = pendingQueries]_vars

\* C5: a timer fires only for a PendingQuery that is still in the table, and a
\* timer or deferred rejection of one PendingQuery never removes or settles
\* another one.
C5_NoStaleTimer ==
    [][\A q \in 1..Len(queries) :
          /\ TimerFire(q) => InTable(q)
          /\ TimeoutOrDeferredRejection(q)
                => \A r \in 1..Len(queries) :
                      (r # q /\ InTable(r))
                          => (InTableOf(pendingQueries', r) /\ queries'[r] = queries[r])]_vars

\* C6: when stop() returns the table is empty and every PendingQuery that was
\* in it is rejected with its timer cancelled.
C6_StopSettlesSynchronously ==
    [][Stop =>
          /\ pendingQueries' = <<>>
          /\ \A q \in 1..Len(queries) :
                InTable(q) => (queries'[q].state = "rejected" /\ queries'[q].timer # "armed")]_vars

\* C7: right after stop() returns this.mdns is null, the next resolve() fails
\* with the not-running error and the next start() succeeds.
C7_StoppedAfterStop ==
    [][(lastOp.op = "stop") =>
          /\ mdns = "null"
          /\ Start => (lastOp'.ret = "ok" /\ mdns' = "live")
          /\ (Len(calls') = Len(calls) + 1)
                => calls'[Len(calls')].result = NotRunningError]_vars

\* C8: a timer fires no earlier than options.timeout after the PendingQuery was
\* created, finds it pending, rejects it with 'Timeout resolving <normalized
\* name>' and leaves no table entry for its key; the timeout outcome never
\* changes afterwards, whatever is ingested.
C8_Timeout ==
    [][\A q \in 1..Len(queries) :
          /\ TimerFire(q) =>
                /\ now >= queries[q].armedAt + options.timeout
                /\ queries[q].state = "pending"
                /\ queries'[q].state = "rejected"
                /\ queries'[q].value = TimeoutError(queries[q].key[1])
                /\ NormalizeName(impl, queries[q].key[1]) = queries[q].key[1]
                /\ ~InTableOf(pendingQueries', q)
                /\ ~\E i \in 1..Len(pendingQueries') :
                        queries'[pendingQueries'[i]].key = queries[q].key
          /\ (queries[q].state = "rejected" /\ queries[q].value.kind = "Timeout resolving")
                => (queries'[q].state = "rejected" /\ queries'[q].value = queries[q].value)]_vars

\* a caller's query has timed out and a matching response was ingested after it
C8_Witness ==
    \E c \in 1..Len(calls) :
        /\ calls[c].qid # 0
        /\ CallOutcome(c) = [state |-> "rejected", value |-> TimeoutError(calls[c].key[1])]
        /\ lastOp.op = "response"
        /\ Len(emitted) = 1
        /\ emitted[1].event = "resolved"
        /\ CacheKey(emitted[1].name, emitted[1].type) = calls[c].key

\* C9: a resolve() of a running engine on a key with a cache entry whose expires
\* is > now returns that entry's address, emits 'cache-hit', and touches neither
\* the table nor the transport; on any other key it returns nothing from the
\* cache and is attached to a pending entry with an armed timer for the key,
\* created with exactly one transport query when the key had none.
C9_CacheFreshness ==
    [][(Len(calls') = Len(calls) + 1 /\ mdns # "null") =>
          LET c == calls'[Len(calls')]
              key == c.key
              fresh == \E i \in 1..Len(cache) : cache[i].key = key /\ cache[i].expires > now
              waiting == \E i \in 1..Len(pendingQueries) : queries[pendingQueries[i]].key = key
          IN  IF fresh
              THEN /\ \E i \in 1..Len(cache) :
                        /\ cache[i].key = key
                        /\ c.result = Address(cache[i].address)
                        /\ emitted' = <<Event("cache-hit", key[1], key[2], cache[i].address, 0)>>
                   /\ c.qid = 0
                   /\ queries' = queries
                   /\ pendingQueries' = pendingQueries
                   /\ queryCalls' = queryCalls
              ELSE /\ c.result = NoValue
                   /\ \A i \in 1..Len(emitted') : emitted'[i].event # "cache-hit"
                   /\ c.qid # 0
                   /\ InTableOf(pendingQueries', c.qid)
                   /\ queries'[c.qid].key = key
                   /\ queries'[c.qid].state = "pending"
                   /\ queries'[c.qid].timer = "armed"
                   /\ IF waiting
                      THEN queries' = queries /\ queryCalls' = queryCalls
                      ELSE /\ c.qid = Len(queries) + 1
                           /\ Len(queries') = Len(queries) + 1
                           /\ queryCalls' = Append(queryCalls,
                                                   [name |-> key[1], type |-> key[2]])]_vars

\* a key served from the cache and, once its entry has expired, queried afresh
\* while the expired entry is still in the cache
C9_Witness ==
    \E c1, c2 \in 1..Len(calls) :
        /\ c1 < c2
        /\ calls[c1].key = calls[c2].key
        /\ calls[c1].hit
        /\ calls[c2].created
        /\ \E i \in 1..Len(cache) : cache[i].key = calls[c2].key /\ cache[i].expires <= now

\* C10: the cache never holds more entries than options.cacheSize, for every
\* capacity 0..MaxCacheSize.
C10_CacheBounded == Len(cache) <= options.cacheSize

\* a two-record response for two different keys ingested into a cache of
\* capacity 1: one of them was evicted
C10_Witness ==
    /\ options.cacheSize = 1
    /\ Len(cache) = 1
    /\ lastOp.op = "response"
    /\ Len(emitted) = 2
    /\ CacheKey(emitted[1].name, emitted[1].type) # CacheKey(emitted[2].name, emitted[2].type)

\* C11 (FIFO eviction): from every reachable cache that holds exactly
\* options.cacheSize entries, ingesting an A/AAAA record whose key is not in the
\* cache drops exactly the first entry in insertion order (the record's own
\* entry when the capacity is 0), appends the new entry and leaves the size at
\* the capacity.
C11_FifoEviction ==
    \A a \in CacheAnswers :
        LET key == CacheKey(AnswerName(impl, a.name), a.type)
            entry == [key |-> key, address |-> a.data,
                      expires |-> now + (IF a.ttl # 0 THEN a.ttl ELSE options.ttl) * 1000]
            after == HandleAnswer([cache |-> cache, queries |-> queries,
                                   pendingQueries |-> pendingQueries, emitted |-> <<>>], a).cache
        IN  (/\ a.type \in {"A", "AAAA"}
             /\ Len(cache) = options.cacheSize
             /\ \A i \in 1..Len(cache) : cache[i].key # key)
                => /\ after = Tail(Append(cache, entry))
                   /\ Len(after) = options.cacheSize
                   /\ \A i \in 2..Len(cache) : \E j \in 1..Len(after) : after[j] = cache[i]
                   /\ options.cacheSize > 0 =>
                          \A j \in 1..Len(after) : after[j].key # cache[1].key

\* capacity 1: a response carried records of two keys, the second was ingested
\* into the full cache and the first one's entry is gone
C11_Witness ==
    /\ options.cacheSize = 1
    /\ lastOp.op = "response"
    /\ Len(emitted) = 2
    /\ CacheKey(emitted[1].name, emitted[1].type) # CacheKey(emitted[2].name, emitted[2].type)
    /\ cache = <<[key |-> CacheKey(emitted[2].name, emitted[2].type),
                  address |-> emitted[2].address,
                  expires |-> now + emitted[2].ttl * 1000]>>

\* the name a spelling stands for: letters folded to lower case, the suffix
\* appended when it is not there
Canon(name) ==
    LET folded == toLowerCase(name)
    IN  IF endsWithLocal(folded) THEN folded ELSE Append(folded, ".local")

\* C12 (normalization): spellings of one name that differ only in the suffix
\* being present and in letter case get one key, so a resolve() of one of them
\* by a running engine is step for step the resolve() of any other (same cache
\* entry, same PendingQuery, same transport query); normalizing a normalized
\* name changes nothing.
C12_NormalizationIdempotent ==
    [][\A n1, n2 \in NameNames : \A type \in LifeTypes :
          /\ NormalizeName(impl, NormalizeName(impl, n1)) = NormalizeName(impl, n1)
          /\ (mdns # "null" /\ Canon(n1) = Canon(n2) /\ Resolve(n1, type))
                => Resolve(n2, type)]_vars

\* C13: stop() leaves the cache as it was (keys, addresses, expiry times,
\* insertion order), and so do the parts of stop() that run later (the deferred
\* rejections, the destroy callback).
C13_StopKeepsCache ==
    [][(lastOp'.op \in {"stop", "immediate", "finish"}) => cache' = cache]_vars

\* stop() has just returned and the cache holds an entry
C13_Witness ==
    /\ lastOp.op = "stop"
    /\ mdns = "null"
    /\ Len(cache) > 0

\* C14: a resolve() of an engine that is not running (never started, or
\* stopped) is rejected with the not-running error, returns nothing from the
\* cache, creates no PendingQuery, arms no timer and sends no transport query.
C14_NotRunning ==
    [][(Len(calls') = Len(calls) + 1 /\ mdns # "live") =>
          /\ calls'[Len(calls')].result = NotRunningError
          /\ calls'[Len(calls')].qid = 0
          /\ ~calls'[Len(calls')].hit
          /\ ~calls'[Len(calls')].created
          /\ calls'[Len(calls')].sent = 0
          /\ emitted' = <<>>
          /\ UNCHANGED <<mdns, cache, pendingQueries, queries, queryCalls>>]_vars

\* C15: start() of a running engine throws 'Resolver is already running' and
\* changes nothing: the transport, the cache, the table and the queries stay.
C15_AlreadyRunning ==
    [][(lastOp'.op = "start" /\ mdns = "live") =>
          /\ lastOp'.ret = "Resolver is already running"
          /\ emitted' = <<>>
          /\ UNCHANGED <<mdns, cache, pendingQueries, queries, queryCalls, calls,
                         immediates, options>>]_vars

\* a second start() has thrown while a query is pending and the cache holds an
\* entry
C15_Witness ==
    /\ lastOp = [op |-> "start", ret |-> "Resolver is already running"]
    /\ mdns = "live"
    /\ Len(pendingQueries) > 0
    /\ Len(cache) > 0

\* the cache entry that ingesting record a writes
EntryOf(a) ==
    [key |-> <<AnswerName(impl, a.name), a.type>>, address |-> a.data,
     expires |-> now + RecordTtl(a) * 1000]

InCache(c, entry) == \E i \in 1..Len(c) : c[i] = entry

\* a response that carries an A record and an AAAA record for one name
BothTypes(response) ==
    /\ ~response.missing
    /\ Len(response.answers) = 2
    /\ response.answers[1].name = response.answers[2].name
    /\ {response.answers[1].type, response.answers[2].type} = {"A", "AAAA"}

\* ingesting `response` settled the PendingQuery of record a's key, if there was
\* one, with that record's address
SettledBy(a) ==
    LET key == <<AnswerName(impl, a.name), a.type>>
    IN  PendingHas(queries, pendingQueries, key) =>
            LET q == PendingGet(queries, pendingQueries, key)
            IN  /\ queries'[q].state = "resolved"
                /\ queries'[q].value = Address(a.data)
                /\ queries'[q].timer = "cleared"
                /\ ~InTableOf(pendingQueries', q)

\* the keys of the records of `response` that are not in the cache
NewKeys(response) ==
    { <<AnswerName(impl, response.answers[i].name), response.answers[i].type>> :
        i \in 1..Len(response.answers) }
      \ { cache[i].key : i \in 1..Len(cache) }

\* C16 as stated: after ingesting an A and an AAAA record of one name in one
\* response the cache holds both entries, and every PendingQuery of the two keys
\* is settled with the address of its own record.
C16_MultiRecordAsStated ==
    [][\A response \in RecordResponses :
          (BothTypes(response) /\ HandleResponse(response)) =>
              \A i \in 1..2 :
                  /\ InCache(cache', EntryOf(response.answers[i]))
                  /\ SettledBy(response.answers[i])]_vars

\* C16 (amended): ingesting an A and an AAAA record of one name in one response
\* settles every PendingQuery of the two keys with the address of its own
\* record, whatever the capacity; the cache holds both entries afterwards
\* whenever it had room for the keys the response adds (otherwise the FIFO
\* eviction of the second record may drop the first one's entry).
C16_MultiRecord ==
    [][\A response \in RecordResponses :
          (BothTypes(response) /\ HandleResponse(response)) =>
              \A i \in 1..2 :
                  /\ SettledBy(response.answers[i])
                  /\ (Len(cache) + Cardinality(NewKeys(response)) <= options.cacheSize)
                        => InCache(cache', EntryOf(response.answers[i]))]_vars

\* one response has resolved the two callers of h.local:A and h.local:AAAA with
\* different addresses and both entries are in the cache
C16_Witness ==
    /\ lastOp.op = "response"
    /\ Len(emitted) = 2
    /\ Len(cache) = 2
    /\ \E c1, c2 \in 1..Len(calls) :
          /\ calls[c1].key[1] = calls[c2].key[1]
          /\ calls[c1].key[2] = "A" /\ calls[c2].key[2] = "AAAA"
          /\ calls[c1].qid # 0 /\ calls[c2].qid # 0
          /\ CallOutcome(c1).state = "resolved" /\ CallOutcome(c2).state = "resolved"
          /\ CallOutcome(c1).value # CallOutcome(c2).value
          /\ \E i, j \in 1..2 :
                /\ cache[i].key = calls[c1].key
                /\ Address(cache[i].address) = CallOutcome(c1).value
                /\ cache[j].key = calls[c2].key
                /\ Address(cache[j].address) = CallOutcome(c2).value

\* PendingQuery q has been rejected by its timer
TimedOut(q) ==
    /\ queries[q].timer = "fired"
    /\ queries[q].state = "rejected"
    /\ queries[q].value = TimeoutError(queries[q].name)

\* C17 (a timeout does not poison the key): a timer that fires leaves the cache
\* as it was and no table entry for its key; a resolve() of a running engine on
\* a key that has timed out, has no table entry and no fresh cache entry creates
\* a new PendingQuery with an armed timer and sends exactly one transport
\* query; a matching response ingested while that PendingQuery is in the table
\* resolves it with the record's address.
C17_TimeoutNoPoison ==
    [][/\ \A q \in 1..Len(queries) :
            TimerFire(q) =>
                /\ cache' = cache
                /\ ~PendingHas(queries', pendingQueries', queries[q].key)
       /\ (mdns # "null" /\ Len(calls') = Len(calls) + 1) =>
             LET c == calls'[Len(calls')]
             IN  (/\ \E q \in 1..Len(queries) : queries[q].key = c.key /\ TimedOut(q)
                  /\ ~PendingHas(queries, pendingQueries, c.key)
                  /\ ~\E i \in 1..Len(cache) : cache[i].key = c.key /\ cache[i].expires > now)
                     => /\ c.created /\ c.sent = 1 /\ c.result = NoValue
                        /\ c.qid = Len(queries) + 1
                        /\ Len(queries') = Len(queries) + 1
                        /\ queries'[c.qid].state = "pending"
                        /\ queries'[c.qid].timer = "armed"
                        /\ InTableOf(pendingQueries', c.qid)
                        /\ queryCalls' = Append(queryCalls, [name |-> c.key[1], type |-> c.key[2]])
       /\ \A response \in LifeResponses :
             (HandleResponse(response) /\ ~response.missing) =>
                \A i \in 1..Len(response.answers) : \A q \in 1..Len(queries) :
                    (/\ InTable(q)
                     /\ queries[q].state = "pending"
                     /\ queries[q].key = <<AnswerName(impl, response.answers[i].name),
                                           response.answers[i].type>>
                     /\ \E p \in 1..Len(queries) : queries[p].key = queries[q].key /\ TimedOut(p))
                        => /\ queries'[q].state = "resolved"
                           /\ queries'[q].value = Address(response.answers[i].data)]_vars

\* a key whose first query has timed out was queried again and the second
\* query was resolved by a response
C17_Witness ==
    \E c1, c2 \in 1..Len(calls) :
        /\ c1 < c2
        /\ calls[c1].key = calls[c2].key
        /\ calls[c1].qid # 0 /\ calls[c2].qid # 0
        /\ calls[c1].qid # calls[c2].qid
        /\ TimedOut(calls[c1].qid)
        /\ calls[c2].created
        /\ CallOutcome(c2).state = "resolved"
        /\ Len(queryCalls) = 2

\* the resolve() call made in this step was served from the cache with `address`
ServedFromCache(address) ==
    LET c == calls'[Len(calls')]
    IN  /\ c.hit /\ c.qid = 0 /\ c.sent = 0
        /\ c.result = Address(address)
        /\ emitted' = <<Event("cache-hit", c.key[1], c.key[2], address, 0)>>
        /\ UNCHANGED <<queries, pendingQueries, queryCalls, cache>>

\* C18 as stated: once a response has resolved a PendingQuery of key k with
\* address a, every resolve(k) of the running engine made before the entry that
\* this response wrote can have expired (nothing clears or evicts in
\* SpecAddresses) returns a from the cache, emits one 'cache-hit' and sends
\* nothing.
C18_CacheHitAsStated ==
    [][(Len(calls') = Len(calls) + 1 /\ mdns # "null") =>
          \A q \in 1..Len(queries) :
              (/\ queries[q].key = calls'[Len(calls')].key
               /\ queries[q].state = "resolved"
               /\ now < queries[q].armedAt + options.ttl * 1000)
                  => ServedFromCache(queries[q].value.name[1])]_vars

\* C18 (amended): a resolve(k) of the running engine, made after a response has
\* resolved a PendingQuery of k and while k has a fresh cache entry, returns the
\* address of that entry, emits one 'cache-hit' and sends nothing; the entry
\* holds the address of the last record ingested for k: the response that
\* resolves a PendingQuery with a writes a, and only the ingestion of a record
\* changes the cache.
C18_CacheHit ==
    [][/\ (Len(calls') = Len(calls) + 1 /\ mdns # "null") =>
            \A i \in 1..Len(cache) :
                (/\ cache[i].key = calls'[Len(calls')].key
                 /\ cache[i].expires > now
                 /\ \E q \in 1..Len(queries) :
                        queries[q].key = cache[i].key /\ queries[q].state = "resolved")
                    => ServedFromCache(cache[i].address)
       /\ \A response \in AddressResponses :
             (HandleResponse(response) /\ ~response.missing /\ Len(response.answers) = 1) =>
                 /\ InCache(cache', EntryOf(response.answers[1]))
                 /\ SettledBy(response.answers[1])
       /\ (cache' # cache) =>
             \E response \in AddressResponses :
                 HandleResponse(response) /\ ~response.missing /\ Len(response.answers) = 1]_vars

\* a caller resolved by a response, then a second call on the key served from
\* the cache with the same address
C18_Witness ==
    \E c1, c2 \in 1..Len(calls) :
        /\ c1 < c2
        /\ calls[c1].key = calls[c2].key
        /\ calls[c1].created
        /\ CallOutcome(c1).state = "resolved"
        /\ calls[c2].hit
        /\ calls[c2].result = CallOutcome(c1).value
        /\ lastOp.op = "resolve"
        /\ Len(emitted) = 1 /\ emitted[1].event = "cache-hit"
        /\ Len(queryCalls) = 1

\* the number of this.mdns.query() calls made for `key`
SentFor(qc, key) ==
    Cardinality({ i \in 1..Len(qc) : <<qc[i].name, qc[i].type>> = key })

\* the number of PendingQuery instances created for `key`
CreatedFor(qs, key) ==
    Cardinality({ q \in 1..Len(qs) : qs[q].key = key })

\* C19 (no retry): for every key the transport queries sent equal the
\* PendingQuery instances created; a query is sent only by the resolve() call
\* that creates a PendingQuery, one per call, and never for a key that has an
\* entry in the table.
C19_NoRetry ==
    [][/\ \A q \in 1..Len(queries') :
            SentFor(queryCalls', queries'[q].key) = CreatedFor(queries', queries'[q].key)
       /\ \A i \in 1..Len(queryCalls') :
            CreatedFor(queries', <<queryCalls'[i].name, queryCalls'[i].type>>) > 0
       /\ (queryCalls' # queryCalls) =>
            /\ Len(queryCalls') = Len(queryCalls) + 1
            /\ SubSeq(queryCalls', 1, Len(queryCalls)) = queryCalls
            /\ Len(calls') = Len(calls) + 1
            /\ calls'[Len(calls')].created
            /\ calls'[Len(calls')].key = <<queryCalls'[Len(queryCalls')].name,
                                           queryCalls'[Len(queryCalls')].type>>
            /\ ~PendingHas(queries, pendingQueries, calls'[Len(calls')].key)]_vars

\* a key queried twice, the second time after stop() rejected its first
\* PendingQuery: two instances, two transport queries
C19_Witness ==
    /\ Len(queries) = 2
    /\ queries[1].key = queries[2].key
    /\ queries[1].state = "rejected" /\ queries[1].value = StoppedError
    /\ SentFor(queryCalls, queries[1].key) = 2
    /\ InTable(2)

\* a response without answers (missing, null or empty) or whose records are
\* all of another type than A and AAAA
NoAddressRecord(response) ==
    \/ response.missing
    \/ \A i \in 1..Len(response.answers) : response.answers[i].type \notin {"A", "AAAA"}

\* C20: ingesting a response with missing, null or empty answers, or with
\* records of other types only, changes neither the cache, nor the table, nor
\* any PendingQuery (promise and timer), sends nothing and emits no event.
C20_NoOpIngest ==
    [][\A response \in IgnoredResponses :
          (NoAddressRecord(response) /\ HandleResponse(response)) =>
              /\ emitted' = <<>>
              /\ UNCHANGED <<cache, pendingQueries, queries, queryCalls, mdns>>]_vars

\* a response without address records was ingested while a query was pending
\* and the cache held an entry: both are still there
C20_Witness ==
    /\ lastOp.op = "response"
    /\ emitted = <<>>
    /\ Len(cache) > 0
    /\ \E q \in 1..Len(queries) :
          /\ InTable(q)
          /\ queries[q].state = "pending"
          /\ queries[q].timer = "armed"

\* the 'resolved' events that ingesting `answers` emits: one per A/AAAA record,
\* in the order of the records
RECURSIVE ResolvedEvents(_)
ResolvedEvents(answers) ==
    IF answers = <<>> THEN <<>>
    ELSE LET a == Head(answers)
         IN  (IF a.type \in {"A", "AAAA"}
              THEN <<Event("resolved", AnswerName(impl, a.name), a.type, a.data, RecordTtl(a))>>
              ELSE <<>>) \o ResolvedEvents(Tail(answers))

\* C21: in every reachable state, with or without a PendingQuery for the key,
\* every A or AAAA record of a response produces exactly one 'resolved' event with
\* the record's name, type, address and the TTL used, in the order of the
\* records, and is written to the cache: right after the record is processed
\* its entry is in the cache (with capacity 0 the entry just written is the one
\* evicted and the cache stays empty), and the entry of the last record is
\* there when the response has been ingested.
C21_EveryRecordIngested ==
    LET st0 == [cache |-> cache, queries |-> queries,
                pendingQueries |-> pendingQueries, emitted |-> <<>>]
    IN  /\ \A response \in RecordResponses :
             (~response.missing /\ Len(response.answers) > 0) =>
                 LET after == HandleAnswers(st0, response.answers)
                 IN  /\ after.emitted = ResolvedEvents(response.answers)
                     /\ (options.cacheSize >= 1)
                           => InCache(after.cache,
                                      EntryOf(response.answers[Len(response.answers)]))
        /\ \A a \in RecordAnswers :
             LET after == HandleAnswer(st0, a)
             IN  /\ after.emitted = ResolvedEvents(<<a>>)
                 /\ Len(after.emitted) = 1
                 /\ (options.cacheSize >= 1) => InCache(after.cache, EntryOf(a))
                 /\ (options.cacheSize = 0) => after.cache = <<>>

\* a response nobody asked for has been ingested: no resolve() call was ever
\* made, its record is in the cache and its event was emitted
C21_Witness ==
    /\ calls = <<>>
    /\ queries = <<>>
    /\ lastOp.op = "response"
    /\ Len(emitted) = 1
    /\ emitted[1].event = "resolved"
    /\ \E i \in 1..Len(cache) :
          /\ cache[i].key = <<emitted[1].name, emitted[1].type>>
          /\ cache[i].address = emitted[1].address
          /\ cache[i].expires = now + emitted[1].ttl * 1000

\* C22 (TTL source): the entry written for an ingested address record expires
\* at ingestion time + ttl * 1000 ms, where ttl is the record's own TTL when it
\* is present and positive and options.ttl otherwise (absent, zero, negative).
C22_TtlSource ==
    [][\A response \in TtlResponses :
          (HandleResponse(response) /\ ~response.missing /\ Len(response.answers) = 1) =>
              LET a == response.answers[1]
                  ttl == IF "ttl" \in DOMAIN a /\ a.ttl > 0 THEN a.ttl ELSE options.ttl
              IN  \E i \in 1..Len(cache') :
                      /\ cache'[i].key = <<AnswerName(impl, a.name), a.type>>
                      /\ cache'[i].expires = now + ttl * 1000]_vars

\* C23 (transport errors): a transport error is surfaced only as an 'error'
\* event, never as an exception: the engine stays running and the cache, the
\* pending table and the timers are left as they were.
C23_TransportErrorIsEvent ==
    [][\A listening \in BOOLEAN :
          TransportError(listening) =>
              /\ emitted' = <<PlainEvent("error")>>
              /\ lastOp'.ret = "ok"
              /\ mdns' = "live"
              /\ UNCHANGED <<cache, pendingQueries, queries, immediates>>]_vars

\* C24 (clearCache): clearCache() removes every cache entry (size 0) and leaves
\* the pending table, the timers and the lifecycle state unchanged; a
\* resolve() made on the running engine right after it is never served from
\* the cache: it joins the pending query of its key or creates one and sends
\* one transport query.
C24_ClearCache ==
    [][/\ ClearCache =>
             /\ Len(cache') = 0
             /\ UNCHANGED <<mdns, pendingQueries, queries, immediates, finishCallbacks>>
       /\ \A rawName \in LifeNames, type \in LifeTypes :
             (lastOp.op = "clearCache" /\ mdns = "live" /\ Resolve(rawName, type)) =>
                 LET c == calls'[Len(calls')]
                 IN  /\ ~c.hit
                     /\ c.result = NoValue
                     /\ \/ c.created /\ c.sent = 1 /\ Len(queries') = Len(queries) + 1
                        \/ ~c.created /\ PendingHas(queries, pendingQueries, c.key)
                                      /\ UNCHANGED <<queries, pendingQueries, queryCalls>>]_vars

\* a key served from the cache, then cleared, then resolved again with a new
\* PendingQuery and a transport query
C24_Witness ==
    /\ Len(calls) = 2
    /\ calls[1].key = calls[2].key
    /\ calls[1].hit
    /\ calls[2].created /\ calls[2].sent = 1 /\ ~calls[2].hit
    /\ cache = <<>>
    /\ now = 0
    /\ lastOp.op = "resolve"
    /\ PendingHas(queries, pendingQueries, calls[2].key)

\* C25 (getCache): getCache() returns, for exactly the keys in the cache, fresh
\* or expired, the entry's address and expiresIn = max(0, floor((expires -
\* now) / 1000)): never negative, 0 for an expired entry, the whole seconds
\* left otherwise; it changes neither the cache nor the pending table.
C25_Snapshot ==
    [][GetCacheCall =>
          LET result == lastOp'.ret
          IN  /\ DOMAIN result = {cache[i].key : i \in 1..Len(cache)}
              /\ \A i \in 1..Len(cache) :
                    LET r == result[cache[i].key]
                        left == cache[i].expires - now
                    IN  /\ r.address = cache[i].address
                        /\ r.expiresIn >= 0
                        /\ left <= 0 => r.expiresIn = 0
                        /\ left > 0 => /\ r.expiresIn * 1000 <= left
                                       /\ left < (r.expiresIn + 1) * 1000
              /\ UNCHANGED <<cache, pendingQueries, queries, mdns>>]_vars

\* a snapshot of two entries, one expired (0) and one with a second and a
\* half left (1), taken while a query is pending
C25_Witness ==
    /\ lastOp.op = "getCache"
    /\ Len(cache) = 2
    /\ queries # <<>> /\ pendingQueries # <<>>
    /\ \E i, j \in 1..Len(cache) :
          /\ cache[i].expires < now
          /\ lastOp.ret[cache[i].key].expiresIn = 0
          /\ cache[j].expires - now = 1500
          /\ lastOp.ret[cache[j].key].expiresIn = 1

\* C28 (liveness): while the event loop keeps running (armed timers
\* eventually fire), every resolve() call eventually settles, fulfilled or
\* rejected, under every interleaving of responses, timeouts, stop and restart.
C28_EveryCallSettles ==
    \A c \in 1..MaxCalls :
        (Len(calls) >= c) ~> (Len(calls) >= c /\ CallOutcome(c).state # "pending")

\* a call made on the running engine, left pending through a stop and a
\* restart, settled in the end
C28_Witness ==
    /\ Len(calls) = MaxCalls
    /\ \A c \in 1..Len(calls) : CallOutcome(c).state # "pending"
    /\ \E c \in 1..Len(calls) : calls[c].created /\ CallOutcome(c).value = TimeoutError(queries[calls[c].qid].name)
    /\ \E c \in 1..Len(calls) : calls[c].created /\ CallOutcome(c).value = StoppedError
    /\ mdns = "live"

\* C29 (ingest normalization): an ingested address record whose name differs
\* only in letter case from the name of a pending query settles that query,
\* and the record is cached under the lower-cased key, which a resolve() of any
\* case variant of the name then hits.
C29_IngestFoldsCase ==
    [][\A response \in NameResponses :
          (HandleResponse(response) /\ ~response.missing /\ Len(response.answers) = 1) =>
              LET a == response.answers[1]
                  key == CacheKey(toLowerCase(a.name), a.type)
              IN  /\ \A i \in 1..Len(pendingQueries) :
                        LET q == pendingQueries[i]
                        IN  (/\ toLowerCase(queries[q].key[1]) = key[1]
                             /\ queries[q].key[2] = key[2])
                                => /\ queries'[q].state = "resolved"
                                   /\ queries'[q].value = Address(a.data)
                  /\ CacheHas(cache', key)
                  /\ \A n \in NameNames :
                        (Canon(n) = key[1])
                            => Fresh(cache', CacheKey(NormalizeName(impl, n), a.type), now)]_vars

\* C30 (re-ingest): from every reachable cache, ingesting an address record
\* whose key is already cached replaces that entry's address and expiry in
\* place: nothing is evicted, the size is unchanged, the key keeps its position
\* in the insertion order and every other entry stays as and where it was.
C30_ReingestInPlace ==
    \A a \in ReingestAnswers :
        LET key == CacheKey(AnswerName(impl, a.name), a.type)
            after == HandleAnswer([cache |-> cache, queries |-> queries,
                                   pendingQueries |-> pendingQueries, emitted |-> <<>>], a).cache
        IN  CacheHas(cache, key) =>
                /\ Len(after) = Len(cache)
                /\ \A i \in 1..Len(cache) :
                      IF cache[i].key = key
                      THEN /\ after[i].key = key
                           /\ after[i].address = a.data
                           /\ after[i].expires = now + RecordTtl(a) * 1000
                      ELSE after[i] = cache[i]

\* a key cached first, a second key cached after it, then the first key
\* ingested again with another address: it is still the first entry
C30_Witness ==
    /\ lastOp.op = "response"
    /\ Len(cache) = 2
    /\ Len(emitted) = 1
    /\ cache[1].key = CacheKey(emitted[1].name, emitted[1].type)
    /\ cache[1].address = "ip2" /\ emitted[1].address = "ip2"
    /\ cache[1].expires = now + 2000
    /\ cache[2].key # cache[1].key

\* C26 (HTTP method gating): every OPTIONS request is answered 204, every
\* request whose method is neither GET nor OPTIONS is answered 405, neither
\* triggers a resolve() call or touches the engine, and only GET requests
\* reach the routing (/health, /resolve and the other paths).
C26_MethodGating ==
    [][\A req \in HttpRequests :
          HandleHttpRequest(req) =>
              LET r == http'[Len(http')]
              IN  /\ (req.method = "OPTIONS") =>
                        /\ r.reply = Reply(204, <<>>)
                        /\ r.call = 0
                  /\ (req.method \notin {"GET", "OPTIONS"}) =>
                        /\ r.reply.status = 405
                        /\ r.reply.body.statusCode = 405
                        /\ r.call = 0
                  /\ (req.method # "GET") =>
                        UNCHANGED <<calls, queries, pendingQueries, queryCalls, cache, mdns>>
                  /\ (r.call # 0 \/ r.reply.status \in {200, 400, 404}) => req.method = "GET"
                  /\ (req.method = "GET") => r.reply.status \in {0, 200, 400, 404}]_vars

\* a POST to /resolve with a name: answered 405 while the engine is running
\* and has made no resolve() call
C26_Witness ==
    /\ Len(http) = 1
    /\ http[1].req.method = "POST"
    /\ http[1].req.pathname = "/resolve"
    /\ http[1].req.name # NoParam
    /\ http[1].reply.status = 405
    /\ mdns = "live"
    /\ calls = <<>>

\* what C27 says of one step: the handler answers a GET /resolve with 400 and
\* without a resolve() call when the name is missing, and calls resolve()
\* otherwise; the reply written when resolve() has settled is 200 with
\* {hostname, type, address} for a fulfilment and 404 with {error, statusCode}
\* for a rejection; a reply once written is never replaced. alias: the
\* `hostname` parameter stands in for a missing `name`.
ResolveRequestStep(alias) ==
    LET asked(req) == IF alias THEN Hostname(req) ELSE req.name
    IN
    /\ \A req \in HttpRequests :
          (HandleHttpRequest(req) /\ req.method = "GET" /\ req.pathname = "/resolve") =>
              LET r == http'[Len(http')]
              IN  IF asked(req) = NoParam
                  THEN /\ r.reply.status = 400
                       /\ r.reply.body.statusCode = 400
                       /\ r.call = 0
                       /\ UNCHANGED <<calls, queries, pendingQueries, queryCalls>>
                  ELSE /\ r.reply.status = 0
                       /\ r.call = Len(calls')
                       /\ Len(calls') = Len(calls) + 1
    /\ \A r \in 1..Len(http) :
          /\ HttpReply(r) =>
                LET c == http[r].call
                    req == http[r].req
                    body == http'[r].reply.body
                IN  /\ CallOutcome(c).state = "resolved" =>
                          /\ http'[r].reply.status = 200
                          /\ body.hostname = (IF endsWithLocal(asked(req)) THEN asked(req)
                                              ELSE Append(asked(req), ".local"))
                          /\ body.type = calls[c].key[2]
                          /\ Address(body.address[1]) = CallOutcome(c).value
                    /\ CallOutcome(c).state = "rejected" =>
                          /\ http'[r].reply.status = 404
                          /\ body.statusCode = 404
                          /\ body.error = CallOutcome(c).value
                          /\ body.error \in {StoppedError, NotRunningError,
                                              TimeoutError(calls[c].key[1])}
          /\ (http[r].reply.status # 0) => http'[r] = http[r]
          /\ (http[r].call # 0 /\ http'[r].reply.status # 0) =>
                CallOutcome(http[r].call).state # "pending"

C31_EvictionIgnoresTtlAndUse ==
    [][/\ (lastOp'.op = "resolve") => cache' = cache
       /\ \A response \in AgingResponses :
             (/\ HandleResponse(response)
              /\ ~response.missing /\ Len(response.answers) = 1
              /\ options.cacheSize >= 1
              /\ Len(cache) = options.cacheSize)
                => LET a == response.answers[1]
                       key == CacheKey(AnswerName(impl, a.name), a.type)
                   IN  ~CacheHas(cache, key) =>
                           /\ Len(cache') = Len(cache)
                           /\ ~CacheHas(cache', cache[1].key)
                           /\ \A i \in 2..Len(cache) : cache'[i - 1] = cache[i]
                           /\ cache'[Len(cache')].key = key]_vars

\* capacity 2: the key that was served from the cache, inserted first and
\* still fresh (its records live 2 s), has been evicted by the record that
\* came last, while the expired entry inserted after it is still there
C31_Witness ==
    /\ options.cacheSize = 2
    /\ lastOp.op = "response"
    /\ Len(calls) = 1
    /\ calls[1].hit
    /\ calls[1].key = CacheKey(<<"h", ".local">>, "A")
    /\ ~CacheHas(cache, calls[1].key)
    /\ Len(cache) = 2
    /\ cache[1].expires <= now
    /\ now < 2000
    /\ Len(emitted) = 1
    /\ cache[2].key = CacheKey(emitted[1].name, emitted[1].type)

\* C32 (lazy expiry): the cache changes only in the ingestion of a response
\* and in clearCache(); resolve(), timeouts, stop() with its deferred parts,
\* getCache() and the passing of time leave every entry as it is, so an
\* expired entry stays and counts toward the size.
C32_LazyExpiry ==
    [][(cache' # cache) => lastOp'.op \in {"response", "clearCache"}]_vars

\* an entry that has expired, was missed by a resolve() (which created a
\* PendingQuery for its key) and is still in the cache when getCache() reads it
C32_Witness ==
    /\ lastOp.op = "getCache"
    /\ Len(cache) = 1
    /\ cache[1].expires <= now
    /\ lastOp.ret[cache[1].key].expiresIn = 0
    /\ Len(calls) = 1
    /\ calls[1].created
    /\ calls[1].key = cache[1].key

\* C33 (per-key isolation): a timeout of a PendingQuery of key k, and the
\* ingestion of a response with one record of key k, leave every PendingQuery
\* of every other key (the same name with the other record type included) as
\* it was: promise state and value, timer, membership of the pending table;
\* so the callers of other keys see no change of their outcome.
C33_PerKeyIsolation ==
    [][/\ \A q \in 1..Len(queries) :
             TimerFire(q) =>
                 \A p \in 1..Len(queries) :
                     (queries[p].key # queries[q].key) =>
                         /\ queries'[p] = queries[p]
                         /\ InTableOf(pendingQueries', p) <=> InTable(p)
       /\ \A response \in ResponsesOf(AnswerLists(RecordAnswers, 1)) :
             (HandleResponse(response) /\ ~response.missing /\ Len(response.answers) = 1) =>
                 LET a == response.answers[1]
                     key == CacheKey(AnswerName(impl, a.name), a.type)
                 IN  \A p \in 1..Len(queries) :
                         (queries[p].key # key) =>
                             /\ queries'[p] = queries[p]
                             /\ InTableOf(pendingQueries', p) <=> InTable(p)]_vars

\* two keys of one name pending; a response has just resolved the A query,
\* the AAAA query is still pending in the table with its timer armed
C33_Witness ==
    /\ lastOp.op = "response"
    /\ Len(queries) = 2
    /\ queries[1].key[1] = queries[2].key[1]
    /\ queries[1].key[2] = "A" /\ queries[2].key[2] = "AAAA"
    /\ queries[1].state = "resolved"
    /\ queries[2].state = "pending" /\ queries[2].timer = "armed"
    /\ InTable(2) /\ ~InTable(1)

\* C34 (stopped means empty table): whenever the engine has no transport
\* handle the pending table is empty, so no PendingQuery is created between
\* stop() and the next start() and none survives the transition to stopped.
C34_StoppedTableEmpty ==
    (mdns = "null") => pendingQueries = <<>>

\* C35 (pending or fresh, never both): in every reachable state no key has an
\* entry in the pending table and at the same time a cache entry with
\* expires > now.
C35_PendingXorFresh ==
    \A i \in 1..Len(pendingQueries) :
        \A j \in 1..Len(cache) :
            (cache[j].key = queries[pendingQueries[i]].key) => cache[j].expires <= now

\* a key with a cache entry that has expired and a PendingQuery in the table,
\* created by the resolve() that missed the entry
C35_Witness ==
    /\ lastOp.op = "resolve"
    /\ Len(pendingQueries) = 1
    /\ Len(cache) = 1
    /\ cache[1].key = queries[pendingQueries[1]].key
    /\ cache[1].expires = now
    /\ queries[pendingQueries[1]].state = "pending"

\* the positions of the records announced by `events` that are stored under `key`
RecordsOf(events, key) ==
    {i \in 1..Len(events) :
        events[i].event = "resolved" /\ CacheKey(events[i].name, events[i].type) = key}

\* C36 as stated (for a cache with room): when the ingestion of a response
\* settles the PendingQuery of key k, the address given to the callers is the
\* address the cache holds for k when the ingestion is over.
C36_DeliveredIsCachedAsStated ==
    [][(lastOp'.op = "response" /\ options.cacheSize >= 1) =>
          \A q \in 1..Len(queries) :
              (queries[q].state = "pending" /\ queries'[q].state = "resolved") =>
                  /\ CacheHas(cache', queries[q].key)
                  /\ Address(CacheGet(cache', queries[q].key).address) = queries'[q].value]_vars

\* C36 (delivered and cached address): when the ingestion of a response
\* settles the PendingQuery of key k, the callers get the address of the
\* first record of k in the response, and the entry the cache holds for k
\* when the ingestion is over (if a later record has not evicted it) has the
\* address of the last record of k; the two addresses are equal when all the
\* records of k in the response carry one address.
C36_DeliveredIsCached ==
    [][(lastOp'.op = "response") =>
          \A q \in 1..Len(queries) :
              (queries[q].state = "pending" /\ queries'[q].state = "resolved") =>
                  LET key == queries[q].key
                      of == RecordsOf(emitted', key)
                      first == CHOOSE i \in of : \A j \in of : i <= j
                      last == CHOOSE i \in of : \A j \in of : j <= i
                  IN  /\ of # {}
                      /\ queries'[q].value = Address(emitted'[first].address)
                      /\ CacheHas(cache', key) =>
                            CacheGet(cache', key).address = emitted'[last].address
                      /\ (/\ CacheHas(cache', key)
                          /\ \A i \in of : emitted'[i].address = emitted'[first].address)
                            => Address(CacheGet(cache', key).address) = queries'[q].value]_vars

\* one response with two records of the pending key: the caller got the
\* address of the first, the cache holds the address of the second
C36_Witness ==
    /\ lastOp.op = "response"
    /\ Len(emitted) = 2
    /\ CacheKey(emitted[1].name, emitted[1].type) = CacheKey(emitted[2].name, emitted[2].type)
    /\ emitted[1].address # emitted[2].address
    /\ Len(queries) = 1
    /\ queries[1].key = CacheKey(emitted[1].name, emitted[1].type)
    /\ queries[1].value = Address(emitted[1].address)
    /\ CacheHas(cache, queries[1].key)
    /\ CacheGet(cache, queries[1].key).address = emitted[2].address

\* C37 (the ingested key is not the victim): with a capacity of at least 1,
\* right after an address record is processed the cache holds the record's key
\* with the record's address, whatever the cache held before (empty, holding
\* the key, or full of other keys), and the key is the victim of no eviction:
\* when the record made the cache overflow, the entry removed is the first
\* one, which is an entry of another key.
C37_IngestedKeyNotVictim ==
    LET st0 == [cache |-> cache, queries |-> queries,
                pendingQueries |-> pendingQueries, emitted |-> <<>>]
    IN  (options.cacheSize >= 1) =>
            \A a \in MultiAnswers \cup AgingAnswers :
                LET key == CacheKey(AnswerName(impl, a.name), a.type)
                    after == HandleAnswer(st0, a).cache
                IN  /\ CacheHas(after, key)
                    /\ CacheGet(after, key).address = a.data
                    /\ (~CacheHas(cache, key) /\ Len(cache) = options.cacheSize)
                          => /\ after[Len(after)].key = key
                             /\ ~CacheHas(after, cache[1].key)
                             /\ cache[1].key # key

\* a cache of capacity 1 that held the first record of a response when the
\* second, of another key, was processed: the second record's entry is the one
\* that is left
C37_Witness ==
    /\ options.cacheSize = 1
    /\ lastOp.op = "response"
    /\ Len(emitted) = 2
    /\ CacheKey(emitted[1].name, emitted[1].type) # CacheKey(emitted[2].name, emitted[2].type)
    /\ Len(cache) = 1
    /\ cache[1].key = CacheKey(emitted[2].name, emitted[2].type)
    /\ cache[1].address = emitted[2].address

\* C38 (the cache survives a restart): stop(), the deferred work of stop() and
\* start() leave every cache entry as it was, and a resolve() of a running
\* engine for a key whose entry is unexpired, stored before the stop or not,
\* returns the entry's address as a cache hit: one 'cache-hit' event, no
\* PendingQuery, no transport query.
C38_CacheSurvivesRestart ==
    [][/\ (lastOp'.op \in {"stop", "finish", "immediate", "start"}) => cache' = cache
       /\ (Len(calls') = Len(calls) + 1 /\ mdns # "null") =>
             \A i \in 1..Len(cache) :
                 (cache[i].key = calls'[Len(calls')].key /\ cache[i].expires > now)
                     => ServedFromCache(cache[i].address)]_vars

\* a caller that asked at the first second and was rejected by stop(), the
\* engine started again, and the next resolve(), in the same second, served
\* from the entry that a two-second record wrote at time 0
C38_Witness ==
    /\ Len(calls) = 2
    /\ calls[1].created
    /\ CallOutcome(1) = [state |-> "rejected", value |-> StoppedError]
    /\ queries[calls[1].qid].armedAt = TickMs
    /\ now = TickMs
    /\ lastOp.op = "resolve"
    /\ mdns = "live"
    /\ calls[2].hit
    /\ calls[2].key # calls[1].key
    /\ \E i \in 1..Len(cache) :
          /\ cache[i].key = calls[2].key
          /\ calls[2].result = Address(cache[i].address)
          /\ cache[i].expires = 2 * 1000
    /\ Len(queryCalls) = 1

\* C39 (record types other than A and AAAA): a resolve() of a running engine
\* for such a type that finds no PendingQuery of its key creates one and sends
\* one transport query (it is never served from the cache); a PendingQuery of
\* such a type is never fulfilled: it leaves the pending state only in a
\* timeout step or in a step of stop(), rejected with the timeout or the
\* 'stopped' error; and the cache never holds an entry of such a type.
C39_OtherTypeNeverFulfilled ==
    [][/\ \A q \in 1..Len(queries') :
             (queries'[q].key[2] \notin {"A", "AAAA"}) =>
                 /\ queries'[q].state \in {"pending", "rejected"}
                 /\ (queries'[q].state = "rejected")
                       => queries'[q].value \in {StoppedError, TimeoutError(queries'[q].name)}
                 /\ (q <= Len(queries) /\ queries'[q].state # queries[q].state)
                       => lastOp'.op \in {"timeout", "stop", "immediate"}
       /\ \A i \in 1..Len(cache') : cache'[i].key[2] \in {"A", "AAAA"}
       /\ (/\ Len(calls') = Len(calls) + 1
           /\ mdns # "null"
           /\ calls'[Len(calls')].key[2] \notin {"A", "AAAA"}) =>
              LET c == calls'[Len(calls')]
              IN  /\ ~c.hit
                  /\ c.qid # 0 /\ queries'[c.qid].key = c.key
                  /\ InTableOf(pendingQueries', c.qid)
                  /\ (~PendingHas(queries, pendingQueries, c.key)) =>
                        /\ c.created /\ c.qid = Len(queries) + 1
                        /\ queryCalls' = Append(queryCalls,
                                                [name |-> c.key[1], type |-> c.key[2]])]_vars

\* a text-record query that was sent, saw a response carrying a text record
\* and an address record for its name, and is still pending while the cache
\* holds the address record only
C39_Witness ==
    /\ lastOp.op = "response"
    /\ Len(emitted) = 1
    /\ Len(cache) = 1 /\ cache[1].key[2] = "A"
    /\ \E q \in 1..Len(queries) :
          /\ queries[q].key = <<cache[1].key[1], "TXT">>
          /\ queries[q].state = "pending"
          /\ InTable(q)
          /\ \E i \in 1..Len(queryCalls) : queryCalls[i].type = "TXT"

====
